---- MODULE Spec2Model ----
(***************************************************************************)
(* sjtu::map (src/src/map.hpp): an ordered map kept as a red-black tree    *)
(* of heap nodes linked by left/right/parent pointers, with iterators that *)
(* are (node pointer, container pointer) pairs.                            *)
(*                                                                         *)
(* Heap addresses.  The program never inspects an address except to        *)
(* compare two of them, and a key is stored in at most one live node of a  *)
(* map, so the node that map m allocates for key k is given the address    *)
(* NodeId(m, k).  That address is never in use when it is handed out.      *)
(***************************************************************************)
EXTENDS Integers, Sequences, FiniteSets, TLC

\* ---------------------------------------------------------------- bounds
MaxKey == 5

\* the largest key of any specification
MaxKeyF == 8

\* ------------------------------------------------------------- constants
NULL == 0
RED == TRUE
BLACK == FALSE
DefaultT == 0

Keys == 1..MaxKey
Maps == {1, 2}
Stride == MaxKeyF
Ids == 1..(Cardinality(Maps) * Stride)

NodeId(m, k) == (m - 1) * Stride + k

\* storage that holds no node
FreeNode == [key |-> 0, val |-> 0, left |-> NULL, right |-> NULL, parent |-> NULL, color |-> BLACK, live |-> FALSE]

\* Node(const value_type &val, Node *p): children null, colour red
Node(k, v, p) == [key |-> k, val |-> v, left |-> NULL, right |-> NULL, parent |-> p, color |-> RED, live |-> TRUE]

\* std::less<Key>
Comp(a, b) == a < b

VARIABLES heap, root, map_size, alive, it, op, exc, inserted, fault, stored, work

vars == <<heap, root, map_size, alive, it, op, exc, inserted, fault, stored, work>>

\* ------------------------------------------------------------- rotations
\* A tree under modification: h heap, r root of the map, f set when a null
\* pointer was dereferenced, rot the rotations and flip the colour flips
\* performed so far, rerun set when the loop of fixInsert has run again after
\* a rotation, splice set when a successor was spliced into the place of an
\* erased node.
LeftRotate(S, x) ==
  LET h == S.h
      y == h[x].right
      p == h[x].parent
      h1 == [h EXCEPT ![x].right = h[y].left]
      h2 == IF h[y].left # NULL THEN [h1 EXCEPT ![h[y].left].parent = x] ELSE h1
      h3 == [h2 EXCEPT ![y].parent = p]
      h4 == IF p = NULL THEN h3
            ELSE IF x = h3[p].left THEN [h3 EXCEPT ![p].left = y]
            ELSE [h3 EXCEPT ![p].right = y]
      h5 == [h4 EXCEPT ![y].left = x, ![x].parent = y]
  IN [S EXCEPT !.h = h5, !.r = IF p = NULL THEN y ELSE S.r, !.rot = @ + 1]

RightRotate(S, x) ==
  LET h == S.h
      y == h[x].left
      p == h[x].parent
      h1 == [h EXCEPT ![x].left = h[y].right]
      h2 == IF h[y].right # NULL THEN [h1 EXCEPT ![h[y].right].parent = x] ELSE h1
      h3 == [h2 EXCEPT ![y].parent = p]
      h4 == IF p = NULL THEN h3
            ELSE IF x = h3[p].right THEN [h3 EXCEPT ![p].right = y]
            ELSE [h3 EXCEPT ![p].left = y]
      h5 == [h4 EXCEPT ![y].right = x, ![x].parent = y]
  IN [S EXCEPT !.h = h5, !.r = IF p = NULL THEN y ELSE S.r, !.rot = @ + 1]

\* ------------------------------------------------------------ insert fix
\* a colour flip that leaves the uncle red
ColorFlip_UncleLeftRed(h, p, y, g) == [h EXCEPT ![p].color = BLACK, ![g].color = RED]

\* uncle red: parent and uncle black, grandparent red
ColorFlip(h, p, y, g) == [h EXCEPT ![p].color = BLACK, ![y].color = BLACK, ![g].color = RED]

\* uncle black, z an outer child: parent black, grandparent red, and the
\* grandparent rotated away from z's side
RecolorRotateRight(S, z) ==
  LET p == S.h[z].parent
      g == S.h[p].parent
  IN RightRotate([S EXCEPT !.h = [S.h EXCEPT ![p].color = BLACK, ![g].color = RED]], g)

\* a recolouring and rotation that also exchanges the values of the parent
\* and the grandparent
RecolorRotateLeft_SwapValues(S, z) ==
  LET p == S.h[z].parent
      g == S.h[p].parent
  IN LeftRotate([S EXCEPT !.h = [S.h EXCEPT ![p].color = BLACK, ![g].color = RED,
                                            ![p].val = S.h[g].val, ![g].val = S.h[p].val]], g)

RecolorRotateLeft(S, z) ==
  LET p == S.h[z].parent
      g == S.h[p].parent
  IN LeftRotate([S EXCEPT !.h = [S.h EXCEPT ![p].color = BLACK, ![g].color = RED]], g)

RECURSIVE FixInsertLoop(_, _)

\* the loop body is entered: rerun is set when a rotation has gone before
Enter(S) == [S EXCEPT !.rerun = @ \/ S.rot > 0]

\* a loop body that, for an inner child, rotates the parent and leaves the
\* rest to the next iteration
FixInsertBody_Continue(S, z) ==
  LET h == S.h
      p == h[z].parent
      g == h[p].parent
  IN IF p = h[g].left
     THEN LET y == h[g].right IN
          IF y # NULL /\ h[y].color
          THEN FixInsertLoop([S EXCEPT !.h = ColorFlip(h, p, y, g), !.flip = @ + 1], g)
          ELSE IF z = h[p].right
          THEN FixInsertLoop(LeftRotate(S, p), p)
          ELSE FixInsertLoop(RecolorRotateRight(S, z), z)
     ELSE LET y == h[g].left IN
          IF y # NULL /\ h[y].color
          THEN FixInsertLoop([S EXCEPT !.h = ColorFlip(h, p, y, g), !.flip = @ + 1], g)
          ELSE IF z = h[p].left
          THEN FixInsertLoop(RightRotate(S, p), p)
          ELSE FixInsertLoop(RecolorRotateLeft(S, z), z)

\* the body of the loop: z's parent p is red
FixInsertBody(S, z) ==
  LET h == S.h
      p == h[z].parent
      g == h[p].parent
  IN IF p = h[g].left
     THEN LET y == h[g].right IN
          IF y # NULL /\ h[y].color
          THEN FixInsertLoop([S EXCEPT !.h = ColorFlip(h, p, y, g), !.flip = @ + 1], g)
          ELSE IF z = h[p].right
          THEN FixInsertLoop(RecolorRotateRight(LeftRotate(S, p), p), p)
          ELSE FixInsertLoop(RecolorRotateRight(S, z), z)
     ELSE LET y == h[g].left IN
          IF y # NULL /\ h[y].color
          THEN FixInsertLoop([S EXCEPT !.h = ColorFlip(h, p, y, g), !.flip = @ + 1], g)
          ELSE IF z = h[p].left
          THEN FixInsertLoop(RecolorRotateLeft(RightRotate(S, p), p), p)
          ELSE FixInsertLoop(RecolorRotateLeft(S, z), z)

\* while (z->parent != nullptr && z->parent->color)
FixInsertLoop(S, z) ==
  LET p == S.h[z].parent
  IN IF p = NULL \/ ~S.h[p].color THEN S
     ELSE FixInsertBody(Enter(S), z)

\* a fix-up that leaves the root's colour as the loop left it
BlackenRoot_Skip(S) == S

\* root->color = false
BlackenRoot(S) == [S EXCEPT !.h = [S.h EXCEPT ![S.r].color = BLACK]]

FixInsert(S, z) == BlackenRoot(FixInsertLoop(S, z))

\* ------------------------------------------------------------ transplant
\* a transplant that leaves v's parent pointer as it was
Transplant_NoParent(S, u, v) ==
  LET h == S.h
      p == h[u].parent
  IN [S EXCEPT !.h = IF p = NULL THEN h
                     ELSE IF u = h[p].left THEN [h EXCEPT ![p].left = v]
                     ELSE [h EXCEPT ![p].right = v],
               !.r = IF p = NULL THEN v ELSE S.r]

Transplant(S, u, v) ==
  LET h == S.h
      p == h[u].parent
      h1 == IF p = NULL THEN h
            ELSE IF u = h[p].left THEN [h EXCEPT ![p].left = v]
            ELSE [h EXCEPT ![p].right = v]
  IN [S EXCEPT !.h = IF v # NULL THEN [h1 EXCEPT ![v].parent = p] ELSE h1,
               !.r = IF p = NULL THEN v ELSE S.r]

RECURSIVE minimum(_, _)
minimum(h, x) == IF h[x].left # NULL THEN minimum(h, h[x].left) ELSE x

RECURSIVE maxLoop(_, _)
maxLoop(h, x) == IF h[x].right # NULL THEN maxLoop(h, h[x].right) ELSE x

maximum(h, x) == IF x = NULL THEN NULL ELSE maxLoop(h, x)

\* ------------------------------------------------------------ delete fix
\* S.x is the node x of fixDelete; S.f is set when the loop dereferences a
\* null pointer (x itself, or the sibling w)
\* "n == nullptr || !n->color"
IsBlack(h, n) == n = NULL \/ ~h[n].color

\* x a left child.  Sibling red: sibling black, parent red, rotate the parent
\* towards x
RedSiblingLeft(S, w) ==
  LET p == S.h[S.x].parent
  IN IF S.h[w].color
     THEN LeftRotate([S EXCEPT !.h = [S.h EXCEPT ![w].color = BLACK, ![p].color = RED]], p)
     ELSE S

\* far child black: near child black, sibling red, rotate the sibling
NearRedLeft(S, w) ==
  IF IsBlack(S.h, S.h[w].right)
  THEN LET l == S.h[w].left
       IN RightRotate([S EXCEPT !.h = IF l # NULL THEN [S.h EXCEPT ![l].color = BLACK, ![w].color = RED]
                                       ELSE [S.h EXCEPT ![w].color = RED]], w)
  ELSE S

\* sibling takes the parent's colour, parent and far child black, rotate the
\* parent towards x
FarRedLeft(S) ==
  LET p == S.h[S.x].parent
      w == S.h[p].right
      r == S.h[w].right
      h1 == [S.h EXCEPT ![w].color = S.h[p].color, ![p].color = BLACK]
  IN LeftRotate([S EXCEPT !.h = IF r # NULL THEN [h1 EXCEPT ![r].color = BLACK] ELSE h1], p)

\* x = root
XToRoot(S) == [S EXCEPT !.x = S.r]

\* the cases on the sibling w = x->parent->right as it is after RedSiblingLeft
SiblingCasesLeft(S) ==
  LET w == S.h[S.h[S.x].parent].right
  IN IF w = NULL THEN [S EXCEPT !.f = TRUE]
     ELSE IF IsBlack(S.h, S.h[w].left) /\ IsBlack(S.h, S.h[w].right)
     THEN [S EXCEPT !.h = [S.h EXCEPT ![w].color = RED], !.x = S.h[S.x].parent]
     ELSE XToRoot(FarRedLeft(NearRedLeft(S, w)))

FixDeleteLeft(S, w) == SiblingCasesLeft(RedSiblingLeft(S, w))

\* x a right child: the mirror image
RedSiblingRight(S, w) ==
  LET p == S.h[S.x].parent
  IN IF S.h[w].color
     THEN RightRotate([S EXCEPT !.h = [S.h EXCEPT ![w].color = BLACK, ![p].color = RED]], p)
     ELSE S

NearRedRight(S, w) ==
  IF IsBlack(S.h, S.h[w].left)
  THEN LET r == S.h[w].right
       IN LeftRotate([S EXCEPT !.h = IF r # NULL THEN [S.h EXCEPT ![r].color = BLACK, ![w].color = RED]
                                      ELSE [S.h EXCEPT ![w].color = RED]], w)
  ELSE S

FarRedRight(S) ==
  LET p == S.h[S.x].parent
      w == S.h[p].left
      l == S.h[w].left
      h1 == [S.h EXCEPT ![w].color = S.h[p].color, ![p].color = BLACK]
  IN RightRotate([S EXCEPT !.h = IF l # NULL THEN [h1 EXCEPT ![l].color = BLACK] ELSE h1], p)

SiblingCasesRight(S) ==
  LET w == S.h[S.h[S.x].parent].left
  IN IF w = NULL THEN [S EXCEPT !.f = TRUE]
     ELSE IF IsBlack(S.h, S.h[w].right) /\ IsBlack(S.h, S.h[w].left)
     THEN [S EXCEPT !.h = [S.h EXCEPT ![w].color = RED], !.x = S.h[S.x].parent]
     ELSE XToRoot(FarRedRight(NearRedRight(S, w)))

FixDeleteRight(S, w) == SiblingCasesRight(RedSiblingRight(S, w))

\* one iteration of the loop of fixDelete
FixDeleteStep(S) ==
  IF S.x = NULL THEN [S EXCEPT !.f = TRUE]
  ELSE LET p == S.h[S.x].parent
       IN IF S.x = S.h[p].left
          THEN IF S.h[p].right = NULL THEN [S EXCEPT !.f = TRUE]
               ELSE FixDeleteLeft(S, S.h[p].right)
          ELSE IF S.h[p].left = NULL THEN [S EXCEPT !.f = TRUE]
               ELSE FixDeleteRight(S, S.h[p].left)

\* while (x != root && (x == nullptr || !x->color))
RECURSIVE FixDeleteLoop(_)
FixDeleteLoop(S) ==
  IF S.f \/ ~(S.x # S.r /\ IsBlack(S.h, S.x)) THEN S
  ELSE FixDeleteLoop(FixDeleteStep(S))

\* if (x != nullptr) x->color = false
BlackenX(S) ==
  IF S.f \/ S.x = NULL THEN S
  ELSE [S EXCEPT !.h = [S.h EXCEPT ![S.x].color = BLACK]]

FixDelete(S, x) == BlackenX(FixDeleteLoop([S EXCEPT !.x = x]))

\* ------------------------------------------------------- find and insert
\* a descent that goes left on either comparison
RECURSIVE findLoop_LeftOnly(_, _, _)
findLoop_LeftOnly(h, current, key) ==
  IF current = NULL THEN NULL
  ELSE IF Comp(key, h[current].key) THEN findLoop_LeftOnly(h, h[current].left, key)
  ELSE IF Comp(h[current].key, key) THEN findLoop_LeftOnly(h, h[current].left, key)
  ELSE current

RECURSIVE findLoop(_, _, _)
findLoop(h, current, key) ==
  IF current = NULL THEN NULL
  ELSE IF Comp(key, h[current].key) THEN findLoop(h, h[current].left, key)
  ELSE IF Comp(h[current].key, key) THEN findLoop(h, h[current].right, key)
  ELSE current

findNode(m, key) == findLoop(heap, root[m], key)

\* the descent of insertNode: <<y, x>>, y the last node visited and x the node
\* holding an equivalent key, if any
RECURSIVE insertDescend(_, _, _, _)
insertDescend(h, y, x, key) ==
  IF x = NULL THEN <<y, NULL>>
  ELSE IF Comp(key, h[x].key) THEN insertDescend(h, x, h[x].left, key)
  ELSE IF Comp(h[x].key, key) THEN insertDescend(h, x, h[x].right, key)
  ELSE <<x, x>>

\* an attachment that tests the comparison the wrong way round
Attach_Swapped(S, y, z, key) ==
  IF y = NULL THEN [S EXCEPT !.r = z]
  ELSE IF Comp(S.h[y].key, key) THEN [S EXCEPT !.h = [S.h EXCEPT ![y].left = z]]
  ELSE [S EXCEPT !.h = [S.h EXCEPT ![y].right = z]]

\* the new node z becomes the root or a child of y, the last node visited
Attach(S, y, z, key) ==
  IF y = NULL THEN [S EXCEPT !.r = z]
  ELSE IF Comp(key, S.h[y].key) THEN [S EXCEPT !.h = [S.h EXCEPT ![y].left = z]]
  ELSE [S EXCEPT !.h = [S.h EXCEPT ![y].right = z]]

\* an insertion that leaves map_size as it was
Inserted_NoCount(S, z) == [S EXCEPT !.x = z]

\* map_size++; return z
Inserted(S, z) == [S EXCEPT !.n = S.n + 1, !.x = z]

\* S.m is the map, S.n its map_size; S.x is the node returned
insertNode(S, key, val) ==
  LET d == insertDescend(S.h, NULL, S.r, key)
      z == NodeId(S.m, key)
  IN IF d[2] # NULL THEN [S EXCEPT !.x = d[2]]
     ELSE Inserted(FixInsert(Attach([S EXCEPT !.h = [S.h EXCEPT ![z] = Node(key, val, d[1])]], d[1], z, key), z), z)

\* ----------------------------------------------------------------- erase
\* z has two children and y = minimum(z->right) is not its right child:
\* y gives its place to its right child and takes over z's right subtree
DetachSuccessor(S, z, y) ==
  LET zr == S.h[z].right
      St == Transplant(S, y, S.h[y].right)
  IN [St EXCEPT !.h = [St.h EXCEPT ![y].right = zr, ![zr].parent = y]]

\* y takes z's left subtree, z's colour and z's value
AdoptLeft_TakesValue(S, z, y) ==
  LET zl == S.h[z].left
  IN [S EXCEPT !.h = [S.h EXCEPT ![y].left = zl, ![zl].parent = y, ![y].color = S.h[z].color,
                                 ![y].val = S.h[z].val],
               !.splice = TRUE]

\* y takes z's left subtree and z's colour
AdoptLeft(S, z, y) ==
  LET zl == S.h[z].left
  IN [S EXCEPT !.h = [S.h EXCEPT ![y].left = zl, ![zl].parent = y, ![y].color = S.h[z].color],
               !.splice = TRUE]

\* z has two children: its successor y is spliced into its place
SpliceSuccessor(S, z, y) ==
  LET x == S.h[y].right
  IN IF S.h[y].parent = z
     THEN AdoptLeft(Transplant(IF x # NULL THEN [S EXCEPT !.h = [S.h EXCEPT ![x].parent = y]] ELSE S, z, y), z, y)
     ELSE AdoptLeft(Transplant(DetachSuccessor(S, z, y), z, y), z, y)

\* if (!y_original_color && x != nullptr) fixDelete(x)
FixIfBlack(S, y_original_color, x) ==
  IF ~y_original_color /\ x # NULL THEN FixDelete(S, x) ELSE S

\* delete z; map_size--
Release(S, z) ==
  IF S.f THEN S
  ELSE [S EXCEPT !.h = [S.h EXCEPT ![z] = FreeNode], !.n = S.n - 1]

deleteNode(S, z) ==
  IF z = NULL THEN S
  ELSE IF S.h[z].left = NULL
  THEN Release(FixIfBlack(Transplant(S, z, S.h[z].right), S.h[z].color, S.h[z].right), z)
  ELSE IF S.h[z].right = NULL
  THEN Release(FixIfBlack(Transplant(S, z, S.h[z].left), S.h[z].color, S.h[z].left), z)
  ELSE LET y == minimum(S.h, S.h[z].right)
       IN Release(FixIfBlack(SpliceSuccessor(S, z, y), S.h[y].color, S.h[y].right), z)

\* ------------------------------------------------------ copy and destroy
RECURSIVE destroy(_, _)
destroy(h, node) ==
  IF node = NULL THEN h
  ELSE [destroy(destroy(h, h[node].left), h[node].right) EXCEPT ![node] = FreeNode]

\* copy(node, parent) into map m: <<heap, new_node>>
RECURSIVE copy(_, _, _, _)
copy(h, node, parent, m) ==
  IF node = NULL THEN <<h, NULL>>
  ELSE LET new_node == NodeId(m, h[node].key)
           h1 == [h EXCEPT ![new_node] = [Node(h[node].key, h[node].val, parent) EXCEPT !.color = h[node].color]]
           l == copy(h1, h[node].left, new_node, m)
           h2 == [l[1] EXCEPT ![new_node].left = l[2]]
           r == copy(h2, h[node].right, new_node, m)
       IN <<[r[1] EXCEPT ![new_node].right = r[2]], new_node>>

\* ----------------------------------------------------------------- state
\* heap      the node storage, by address
\* root      root[m], map_size[m]: the members of map object m
\* alive     the map objects constructed and not yet destroyed
\* it        an iterator held by the caller: [cur, cont] (cont 0: no container)
\* op        the operation the caller invoked last
\* exc       what the last call threw ("none" when it returned)
\* inserted  the flag of the pair returned by the last insert
\* fault     "none", or how an undefined operation ended the run
\* stored    what the caller has put into each map: stored[m][k] is the value
\*           last stored under k, for the keys inserted and not erased since
\* work      the rotations and colour flips the last call performed, whether
\*           the loop of fixInsert ran again after a rotation, and whether a
\*           successor was spliced into the place of an erased node
\* the store st with v under k
Put(st, k, v) == [j \in DOMAIN st \cup {k} |-> IF j = k THEN v ELSE st[j]]

\* the store st without k
Remove(st, k) == [j \in DOMAIN st \ {k} |-> st[j]]

\* the keys the caller has stored in map m
StoredKeys(m) == DOMAIN stored[m]

UBOutcomes == {"trap", "wild"}

EmptyStore == <<>>

\* no rotation, no colour flip, no splice
NoWork == [rot |-> 0, flip |-> 0, rerun |-> FALSE, splice |-> FALSE]

Init ==
  /\ heap = [i \in Ids |-> FreeNode]
  /\ root = [m \in Maps |-> NULL]
  /\ map_size = [m \in Maps |-> 0]
  /\ alive = {1}
  /\ it = [cur |-> NULL, cont |-> 0]
  /\ op = "map"
  /\ exc = "none"
  /\ inserted = FALSE
  /\ fault = "none"
  /\ stored = [m \in Maps |-> EmptyStore]
  /\ work = NoWork

Tree(m) == [h |-> heap, r |-> root[m], n |-> map_size[m], f |-> FALSE, m |-> m, x |-> NULL, rot |-> 0, flip |-> 0, rerun |-> FALSE, splice |-> FALSE]

\* write the members of map S.m back
Commit(S) ==
  /\ heap' = S.h
  /\ root' = [root EXCEPT ![S.m] = S.r]
  /\ map_size' = [map_size EXCEPT ![S.m] = S.n]
  /\ work' = [rot |-> S.rot, flip |-> S.flip, rerun |-> S.rerun, splice |-> S.splice]

\* write the members back and hand the caller an iterator to the node S.x
CommitReturn(S) ==
  /\ Commit(S)
  /\ it' = [cur |-> S.x, cont |-> S.m]

\* the run ends in undefined behaviour
Undefined ==
  \E o \in UBOutcomes : fault' = o

\* an iterator whose node has been deleted, or whose container is gone
Dangling(i) ==
  \/ i.cur # NULL /\ ~heap[i.cur].live
  \/ i.cont # 0 /\ i.cont \notin alive

Ready(m) == fault = "none" /\ m \in alive

\* ------------------------------------------------------------ operations
\* an insert that assigns the value of a key already present
Insert_Overwrites(m, k, v) ==
  /\ Ready(m)
  /\ op' = "insert"
  /\ LET node == findNode(m, k) IN
     IF node # NULL
     THEN /\ it' = [cur |-> node, cont |-> m]
          /\ inserted' = FALSE
          /\ heap' = [heap EXCEPT ![node].val = v]
          /\ UNCHANGED <<root, map_size>> /\ work' = NoWork
     ELSE /\ CommitReturn(insertNode(Tree(m), k, v))
          /\ inserted' = TRUE
  /\ exc' = "none"
  /\ stored' = IF k \in StoredKeys(m) THEN stored ELSE [stored EXCEPT ![m] = Put(@, k, v)]
  /\ UNCHANGED <<alive, fault>>

\* pair<iterator, bool> insert(const value_type &value)
Insert(m, k, v) ==
  /\ Ready(m)
  /\ op' = "insert"
  /\ LET node == findNode(m, k) IN
     IF node # NULL
     THEN /\ it' = [cur |-> node, cont |-> m]
          /\ inserted' = FALSE
          /\ UNCHANGED <<heap, root, map_size>> /\ work' = NoWork
     ELSE /\ CommitReturn(insertNode(Tree(m), k, v))
          /\ inserted' = TRUE
  /\ exc' = "none"
  /\ stored' = IF k \in StoredKeys(m) THEN stored ELSE [stored EXCEPT ![m] = Put(@, k, v)]
  /\ UNCHANGED <<alive, fault>>

\* T &operator[](const Key &key), the reference not written through
Subscript(m, k) ==
  /\ Ready(m)
  /\ op' = "operator[]"
  /\ LET node == findNode(m, k) IN
     IF node # NULL
     THEN UNCHANGED <<heap, root, map_size>> /\ work' = NoWork
     ELSE Commit(insertNode(Tree(m), k, DefaultT))
  /\ exc' = "none"
  /\ stored' = IF k \in StoredKeys(m) THEN stored ELSE [stored EXCEPT ![m] = Put(@, k, DefaultT)]
  /\ UNCHANGED <<alive, it, inserted, fault>>

\* a write through the reference to the value of node S.x
Assign(S, v) == [S EXCEPT !.h = [S.h EXCEPT ![S.x].val = v]]

\* m[k] = v
SubscriptAssign(m, k, v) ==
  /\ Ready(m)
  /\ op' = "operator[]="
  /\ LET node == findNode(m, k)
     IN IF node # NULL
        THEN Commit(Assign([Tree(m) EXCEPT !.x = node], v))
        ELSE Commit(Assign(insertNode(Tree(m), k, DefaultT), v))
  /\ exc' = "none"
  /\ stored' = [stored EXCEPT ![m] = Put(@, k, v)]
  /\ UNCHANGED <<alive, it, inserted, fault>>

\* T &at(const Key &key): the node whose value is returned by reference,
\* NULL when at throws
at(m, key) == findNode(m, key)

\* an at that inserts a key it does not find
At_Inserts(m, k) ==
  /\ Ready(m)
  /\ op' = "at"
  /\ IF at(m, k) = NULL
     THEN Commit(insertNode(Tree(m), k, DefaultT))
     ELSE UNCHANGED <<heap, root, map_size>> /\ work' = NoWork
  /\ exc' = "none"
  /\ stored' = IF k \in StoredKeys(m) THEN stored ELSE [stored EXCEPT ![m] = Put(@, k, DefaultT)]
  /\ UNCHANGED <<alive, it, inserted, fault>>

\* m.at(k)
At(m, k) ==
  /\ Ready(m)
  /\ op' = "at"
  /\ exc' = IF at(m, k) = NULL THEN "index_out_of_bound" ELSE "none"
  /\ UNCHANGED <<heap, root, map_size, alive, it, inserted, fault, stored>> /\ work' = NoWork

\* const T &operator[](const Key &key) const: return at(key)
ConstSubscript(m, k) ==
  /\ Ready(m)
  /\ op' = "operator[] const"
  /\ exc' = IF at(m, k) = NULL THEN "index_out_of_bound" ELSE "none"
  /\ UNCHANGED <<heap, root, map_size, alive, it, inserted, fault, stored>> /\ work' = NoWork

\* iterator end()
end(m) == [cur |-> NULL, cont |-> m]

\* iterator find(const Key &key)
find(m, key) ==
  LET node == findNode(m, key)
  IN IF node = NULL THEN end(m) ELSE [cur |-> node, cont |-> m]

\* size_t count(const Key &key)
count(m, key) == IF findNode(m, key) # NULL THEN 1 ELSE 0

\* size_t size()
size(m) == map_size[m]

Find(m, k) ==
  /\ Ready(m)
  /\ op' = "find"
  /\ it' = find(m, k)
  /\ exc' = "none"
  /\ UNCHANGED <<heap, root, map_size, alive, inserted, fault, stored>> /\ work' = NoWork

\* iterator begin()
begin(m) == [cur |-> IF root[m] = NULL THEN NULL ELSE minimum(heap, root[m]), cont |-> m]

Begin(m) ==
  /\ Ready(m)
  /\ op' = "begin"
  /\ it' = begin(m)
  /\ exc' = "none"
  /\ UNCHANGED <<heap, root, map_size, alive, inserted, fault, stored>> /\ work' = NoWork

End(m) ==
  /\ Ready(m)
  /\ op' = "end"
  /\ it' = end(m)
  /\ exc' = "none"
  /\ UNCHANGED <<heap, root, map_size, alive, inserted, fault, stored>> /\ work' = NoWork

\* a step to the parent without the walk up
upRight_NoClimb(h, current, parent) == parent

\* the walk up of operator++: while (parent != nullptr && current == parent->right)
RECURSIVE upRight(_, _, _)
upRight(h, current, parent) ==
  IF parent # NULL /\ current = h[parent].right THEN upRight(h, parent, h[parent].parent) ELSE parent

\* a step to the parent without the walk up
upLeft_NoClimb(h, current, parent) == parent

\* the walk up of operator--: while (parent != nullptr && current == parent->left)
RECURSIVE upLeft(_, _, _)
upLeft(h, current, parent) ==
  IF parent # NULL /\ current = h[parent].left THEN upLeft(h, parent, h[parent].parent) ELSE parent

\* iterator::operator++ on a live node: the new value of current
increment(h, current) ==
  IF h[current].right # NULL THEN minimum(h, h[current].right)
  ELSE upRight(h, current, h[current].parent)

\* iterator::operator-- on a live node: the new value of current
decrement(h, current) ==
  IF h[current].left # NULL THEN maximum(h, h[current].left)
  ELSE upLeft(h, current, h[current].parent)

\* ++it
Inc ==
  /\ fault = "none"
  /\ op' = "operator++"
  /\ IF it.cur = NULL
     THEN /\ exc' = "invalid_iterator"
          /\ UNCHANGED <<it, fault>>
     ELSE IF Dangling(it)
     THEN /\ Undefined
          /\ UNCHANGED <<it, exc>>
     ELSE /\ it' = [it EXCEPT !.cur = increment(heap, it.cur)]
          /\ exc' = "none"
          /\ UNCHANGED fault
  /\ UNCHANGED <<heap, root, map_size, alive, inserted, stored>> /\ work' = NoWork

\* --it
Dec ==
  /\ fault = "none"
  /\ op' = "operator--"
  /\ IF it.cont = 0 \/ Dangling(it)
     THEN /\ Undefined
          /\ UNCHANGED <<it, exc>>
     ELSE IF it.cur = NULL
     THEN IF root[it.cont] = NULL
          THEN /\ exc' = "invalid_iterator"
               /\ UNCHANGED <<it, fault>>
          ELSE /\ it' = [it EXCEPT !.cur = maximum(heap, root[it.cont])]
               /\ exc' = "none"
               /\ UNCHANGED fault
     ELSE LET c == decrement(heap, it.cur) IN
          /\ it' = [it EXCEPT !.cur = c]
          /\ exc' = IF c = NULL THEN "invalid_iterator" ELSE "none"
          /\ UNCHANGED fault
  /\ UNCHANGED <<heap, root, map_size, alive, inserted, stored>> /\ work' = NoWork

\* *it
Deref ==
  /\ fault = "none"
  /\ op' = "operator*"
  /\ IF it.cur = NULL
     THEN /\ exc' = "invalid_iterator"
          /\ UNCHANGED fault
     ELSE IF Dangling(it)
     THEN /\ Undefined
          /\ UNCHANGED exc
     ELSE /\ exc' = "none"
          /\ UNCHANGED fault
  /\ UNCHANGED <<heap, root, map_size, alive, it, inserted, stored>> /\ work' = NoWork

\* deleteNode has returned, or has stopped at a null pointer
Deleted(S) ==
  /\ Commit(S)
  /\ IF S.f
     THEN /\ Undefined
          /\ UNCHANGED <<exc, stored>>
     ELSE /\ exc' = "none"
          /\ stored' = [stored EXCEPT ![S.m] = Remove(@, heap[it.cur].key)]
          /\ UNCHANGED fault

\* an erase that does not look at the iterator's container
Erase_NoContainerCheck(m) ==
  /\ Ready(m)
  /\ op' = "erase"
  /\ IF it.cur = NULL
     THEN /\ exc' = "invalid_iterator"
          /\ UNCHANGED <<heap, root, map_size, fault, stored>> /\ work' = NoWork
     ELSE IF Dangling(it)
     THEN /\ Undefined
          /\ UNCHANGED <<heap, root, map_size, exc, stored>> /\ work' = NoWork
     ELSE Deleted(deleteNode(Tree(m), it.cur))
  /\ UNCHANGED <<alive, it, inserted>>

\* void erase(iterator pos), pos the iterator the caller holds
Erase(m) ==
  /\ Ready(m)
  /\ op' = "erase"
  /\ IF it.cont # m \/ it.cur = NULL
     THEN /\ exc' = "invalid_iterator"
          /\ UNCHANGED <<heap, root, map_size, fault, stored>> /\ work' = NoWork
     ELSE IF Dangling(it)
     THEN /\ Undefined
          /\ UNCHANGED <<heap, root, map_size, exc, stored>> /\ work' = NoWork
     ELSE Deleted(deleteNode(Tree(m), it.cur))
  /\ UNCHANGED <<alive, it, inserted>>

\* a clear that leaves map_size as it was
Clear_KeepSize(m) ==
  /\ Ready(m)
  /\ op' = "clear"
  /\ heap' = destroy(heap, root[m])
  /\ work' = NoWork
  /\ root' = [root EXCEPT ![m] = NULL]
  /\ UNCHANGED map_size
  /\ exc' = "none"
  /\ stored' = [stored EXCEPT ![m] = EmptyStore]
  /\ UNCHANGED <<alive, it, inserted, fault>>

\* void clear()
Clear(m) ==
  /\ Ready(m)
  /\ op' = "clear"
  /\ heap' = destroy(heap, root[m])
  /\ work' = NoWork
  /\ root' = [root EXCEPT ![m] = NULL]
  /\ map_size' = [map_size EXCEPT ![m] = 0]
  /\ exc' = "none"
  /\ stored' = [stored EXCEPT ![m] = EmptyStore]
  /\ UNCHANGED <<alive, it, inserted, fault>>

\* map()
DefaultConstruct(m) ==
  /\ fault = "none" /\ m \notin alive
  /\ op' = "map"
  /\ work' = NoWork
  /\ alive' = alive \cup {m}
  /\ root' = [root EXCEPT ![m] = NULL]
  /\ map_size' = [map_size EXCEPT ![m] = 0]
  /\ exc' = "none"
  /\ stored' = [stored EXCEPT ![m] = EmptyStore]
  /\ UNCHANGED <<heap, it, inserted, fault>>

\* a copy constructor that takes over the root pointer of the source
CopyConstruct_Shallow(m, other) ==
  /\ fault = "none" /\ m \notin alive /\ other \in alive
  /\ op' = "map(other)"
  /\ work' = NoWork
  /\ root' = [root EXCEPT ![m] = root[other]]
  /\ map_size' = [map_size EXCEPT ![m] = map_size[other]]
  /\ alive' = alive \cup {m}
  /\ exc' = "none"
  /\ stored' = [stored EXCEPT ![m] = stored[other]]
  /\ UNCHANGED <<heap, it, inserted, fault>>

\* map(const map &other)
CopyConstruct(m, other) ==
  /\ fault = "none" /\ m \notin alive /\ other \in alive
  /\ op' = "map(other)"
  /\ work' = NoWork
  /\ LET c == copy(heap, root[other], NULL, m) IN
     /\ heap' = c[1]
     /\ root' = [root EXCEPT ![m] = c[2]]
  /\ map_size' = [map_size EXCEPT ![m] = map_size[other]]
  /\ alive' = alive \cup {m}
  /\ exc' = "none"
  /\ stored' = [stored EXCEPT ![m] = stored[other]]
  /\ UNCHANGED <<it, inserted, fault>>

\* map &operator=(const map &other)
CopyAssign(m, other) ==
  /\ Ready(m) /\ other \in alive
  /\ op' = "operator="
  /\ IF m = other
     THEN UNCHANGED <<heap, root, map_size>> /\ work' = NoWork
     ELSE LET c == copy(destroy(heap, root[m]), root[other], NULL, m) IN
          /\ heap' = c[1]
          /\ root' = [root EXCEPT ![m] = c[2]]
          /\ map_size' = [map_size EXCEPT ![m] = map_size[other]]
          /\ work' = NoWork
  /\ exc' = "none"
  /\ stored' = [stored EXCEPT ![m] = stored[other]]
  /\ UNCHANGED <<alive, it, inserted, fault>>

\* ~map()
Destruct(m) ==
  /\ Ready(m)
  /\ op' = "~map"
  /\ heap' = destroy(heap, root[m])
  /\ work' = NoWork
  /\ root' = [root EXCEPT ![m] = NULL]
  /\ map_size' = [map_size EXCEPT ![m] = 0]
  /\ alive' = alive \ {m}
  /\ exc' = "none"
  /\ stored' = [stored EXCEPT ![m] = EmptyStore]
  /\ UNCHANGED <<it, inserted, fault>>

\* -------------------------------------------------------- specifications
\* one map; insert, operator[], find, erase
TreeVals == {DefaultT}

Next ==
  \/ \E k \in Keys, v \in TreeVals : Insert(1, k, v)
  \/ \E k \in Keys : Subscript(1, k)
  \/ \E k \in Keys : Find(1, k)
  \/ Erase(1)

Spec == Init /\ [][Next]_vars

\* one map with values; insert, operator[], find, erase, clear
MaxKeyV == 3
MaxVal == 1

KeysV == 1..MaxKeyV
Vals == 0..MaxVal

NextV ==
  \/ \E k \in KeysV, v \in Vals : Insert(1, k, v)
  \/ \E k \in KeysV : Subscript(1, k)
  \/ \E k \in KeysV, v \in Vals : SubscriptAssign(1, k, v)
  \/ \E k \in KeysV : Find(1, k)
  \/ Erase(1)
  \/ Clear(1)

SpecV == Init /\ [][NextV]_vars

\* one map; insert, find, erase, clear and the iterator operations
MaxKeyI == 5

KeysI == 1..MaxKeyI

NextI ==
  \/ \E k \in KeysI : Insert(1, k, DefaultT)
  \/ \E k \in KeysI : Find(1, k)
  \/ Begin(1)
  \/ End(1)
  \/ Inc
  \/ Dec
  \/ Deref
  \/ Erase(1)
  \/ Clear(1)

SpecI == Init /\ [][NextI]_vars

\* two maps; construction, copy, assignment and destruction
MaxKeyC == 3

KeysC == 1..MaxKeyC

NextC ==
  \/ \E m \in Maps, k \in KeysC : Insert(m, k, DefaultT)
  \/ \E m \in Maps, k \in KeysC : Subscript(m, k)
  \/ \E m \in Maps, k \in KeysC : Find(m, k)
  \/ \E m \in Maps : End(m)
  \/ \E m \in Maps : Erase(m)
  \/ \E m \in Maps : Clear(m)
  \/ \E m \in Maps : DefaultConstruct(m)
  \/ \E m, other \in Maps : CopyConstruct(m, other)
  \/ \E m, other \in Maps : CopyAssign(m, other)
  \/ \E m \in Maps : Destruct(m)

SpecC == Init /\ [][NextC]_vars

\* one map with values; insert, operator[], at, the const operator[], find,
\* erase
NextA ==
  \/ \E k \in KeysV, v \in Vals : Insert(1, k, v)
  \/ \E k \in KeysV : Subscript(1, k)
  \/ \E k \in KeysV : At(1, k)
  \/ \E k \in KeysV : ConstSubscript(1, k)
  \/ \E k \in KeysV : Find(1, k)
  \/ Erase(1)

SpecA == Init /\ [][NextA]_vars

\* two maps with values; insert, writes through operator[], find, erase,
\* clear, copy construction, copy assignment and destruction
MaxKeyD == 2

KeysD == 1..MaxKeyD
ValsD == {DefaultT, MaxVal}

NextD ==
  \/ \E m \in Maps, k \in KeysD : Insert(m, k, DefaultT)
  \/ \E m \in Maps, k \in KeysD, v \in ValsD : SubscriptAssign(m, k, v)
  \/ \E m \in Maps, k \in KeysD : Find(m, k)
  \/ \E m \in Maps : Erase(m)
  \/ \E m \in Maps : Clear(m)
  \/ \E m, other \in Maps : CopyConstruct(m, other)
  \/ \E m, other \in Maps : CopyAssign(m, other)
  \/ \E m \in Maps : Destruct(m)

SpecD == Init /\ [][NextD]_vars

\* one map that only grows; insert and operator[] over keys enough for
\* fix-ups that flip colours and then rotate
KeysF == 1..MaxKeyF

NextF ==
  \/ \E k \in KeysF : Insert(1, k, DefaultT)
  \/ \E k \in KeysF : Subscript(1, k)

SpecF == Init /\ [][NextF]_vars

\* ------------------------------------------------- properties of a tree
\* the nodes reachable from n by child links
RECURSIVE Nodes(_, _)
Nodes(h, n) == IF n = NULL THEN {} ELSE {n} \cup Nodes(h, h[n].left) \cup Nodes(h, h[n].right)

\* the numbers of black nodes on the paths from n down to a null child
RECURSIVE BlackCounts(_, _)
BlackCounts(h, n) ==
  IF n = NULL THEN {0}
  ELSE {c + (IF h[n].color THEN 0 ELSE 1) : c \in BlackCounts(h, h[n].left) \cup BlackCounts(h, h[n].right)}

\* the keys of the subtree of n, in order
RECURSIVE InOrder(_, _)
InOrder(h, n) == IF n = NULL THEN <<>> ELSE InOrder(h, h[n].left) \o <<h[n].key>> \o InOrder(h, h[n].right)

Ascending(s) == \A i \in 1..(Len(s) - 1) : Comp(s[i], s[i + 1])

EqualBlackHeight(h, r) == Cardinality(BlackCounts(h, r)) = 1

NoRedRed(h, r) ==
  \A n \in Nodes(h, r) : h[n].color =>
    /\ h[n].left # NULL => ~h[h[n].left].color
    /\ h[n].right # NULL => ~h[h[n].right].color

\* the entries of the tree of root r
Entries(h, r) == {<<h[n].key, h[n].val>> : n \in Nodes(h, r)}

\* the red-black and search-tree invariants of the tree of root r
TreeInvariants(h, r) ==
  /\ Ascending(InOrder(h, r))
  /\ NoRedRed(h, r)
  /\ EqualBlackHeight(h, r)
  /\ r # NULL => ~h[r].color

\* the parent pointers of the tree of root r agree with the child pointers
ParentLinks(h, r) ==
  /\ r # NULL => h[r].parent = NULL
  /\ \A n \in Nodes(h, r) :
       /\ h[n].left # NULL => h[h[n].left].parent = n
       /\ h[n].right # NULL => h[h[n].right].parent = n

Running == fault = "none"

\* the last call was an erase that returned
Erased == Running /\ op = "erase" /\ exc = "none"

\* ---------------------------------------------------------------- claims
\* C1: after any sequence of insert and erase, every path from the root to a
\* null child passes through the same number of black nodes.
C1_EqualBlackHeight ==
  Running => \A m \in alive : EqualBlackHeight(heap, root[m])

\* C2: after any sequence of insert and erase, no red node has a red child.
C2_NoRedRed ==
  Running => \A m \in alive : NoRedRed(heap, root[m])

\* C2 witness: an erase has completed and left a tree of at least three nodes
\* that holds a red node.
C2_Witness ==
  /\ Running /\ Erased /\ map_size[1] >= 3
  /\ \E n \in Nodes(heap, root[1]) : heap[n].color

\* C3: after any sequence of insert, operator[] and erase, the in-order
\* traversal yields strictly ascending keys (so no key is stored twice).
C3_Ascending ==
  Running => \A m \in alive : Ascending(InOrder(heap, root[m]))

\* C3 witness: an erase has completed and at least three keys are left.
C3_Witness ==
  /\ Running /\ Erased
  /\ Len(InOrder(heap, root[1])) >= 3

\* C4: erase with an iterator to a live entry of the map runs to completion:
\* no null pointer is dereferenced, exactly that entry is removed, and the
\* tree invariants hold afterwards.
C4_EraseCompletes ==
  [][\A m \in Maps :
       (Erase(m) /\ it.cont = m /\ it.cur # NULL /\ ~Dangling(it)) =>
         /\ fault' = "none"
         /\ Nodes(heap', root'[m]) = Nodes(heap, root[m]) \ {it.cur}
         /\ Ascending(InOrder(heap', root'[m]))
         /\ NoRedRed(heap', root'[m])
         /\ EqualBlackHeight(heap', root'[m])]_vars

\* C5: erase(pos) throws invalid_iterator when pos is the end iterator of the
\* map or an iterator of another map (a copy included), and the map's
\* nodes, structure and size are then unchanged.
C5_EraseRejectsForeign ==
  [][op' = "erase" =>
      \A m \in alive :
       ((it.cur = NULL \/ it.cont # m) /\ Erase(m)) =>
         /\ exc' = "invalid_iterator"
         /\ UNCHANGED <<heap, root, map_size>>]_vars

\* C5 witness: erase on map 1 has thrown for an iterator to a live entry of
\* map 2, the two maps holding the same entries.
C5_Witness ==
  /\ Running /\ op = "erase" /\ exc = "invalid_iterator"
  /\ alive = Maps /\ it.cont = 2 /\ it.cur # NULL /\ heap[it.cur].live
  /\ stored[1] = stored[2] /\ size(1) >= 2

\* C6: erase, dereference and stepping on an iterator whose node has been
\* erased throw invalid_iterator.
C6_StaleRejected ==
  [][(/\ it.cur # NULL /\ ~heap[it.cur].live /\ it.cont \in alive
      /\ op' \in {"erase", "operator*", "operator++", "operator--"}
      /\ (Erase(it.cont) \/ Deref \/ Inc \/ Dec)) =>
         (exc' = "invalid_iterator" /\ fault' = "none")]_vars

\* C7: size() equals the number of nodes reachable from the root and the
\* number of entries stored, after insert, operator[], erase, clear, copy
\* construction and copy assignment (a copy is given the entries of its
\* source; clear leaves none).
C7_SizeConsistent ==
  Running => \A m \in alive :
    /\ size(m) = Cardinality(Nodes(heap, root[m]))
    /\ size(m) = Cardinality(StoredKeys(m))

\* C7 witness: a map has just been copied from one holding two entries or more.
C7_Witness ==
  /\ Running /\ op \in {"map(other)", "operator="}
  /\ alive = Maps /\ size(1) >= 2 /\ size(2) = size(1)

\* C8: insert of a key already present changes nothing in the map and
\* returns inserted = false with an iterator to the existing entry.
C8_InsertPresent ==
  [][op' = "insert" =>
      \A m \in alive : \A k \in StoredKeys(m), v \in Vals :
       Insert(m, k, v) =>
         /\ UNCHANGED <<heap, root, map_size>>
         /\ inserted' = FALSE
         /\ it'.cont = m /\ it'.cur # NULL
         /\ heap'[it'.cur].live /\ heap'[it'.cur].key = k
         /\ heap'[it'.cur].val = stored[m][k]]_vars

\* C8 witness: an insert has returned false on a map of two entries or more,
\* its iterator at an entry whose value is not the default.
C8_Witness ==
  /\ Running /\ op = "insert" /\ ~inserted /\ size(1) >= 2
  /\ it.cur # NULL /\ heap[it.cur].val # DefaultT

\* C9: find(k) denotes an entry with key k and the value last stored for k
\* exactly when k is stored (count(k) = 1); otherwise, as after erase,
\* find(k) = end() and count(k) = 0.
C9_FindCount ==
  Running => \A m \in alive, k \in Keys :
    LET i == find(m, k) IN
    IF k \in StoredKeys(m)
    THEN /\ i # end(m) /\ i.cont = m
         /\ heap[i.cur].live /\ heap[i.cur].key = k /\ heap[i.cur].val = stored[m][k]
         /\ count(m, k) = 1
    ELSE i = end(m) /\ count(m, k) = 0

\* C9 witness: an erase has returned; some key is absent and another is
\* stored with a value that is not the default.
C9_Witness ==
  /\ Erased
  /\ \E k \in Keys \ StoredKeys(1) : find(1, k) = end(1)
  /\ \E k \in StoredKeys(1) : stored[1][k] # DefaultT /\ find(1, k) # end(1)

\* the positions reached from cur by at most n applications of ++
RECURSIVE Walk(_, _, _)
Walk(h, cur, n) ==
  IF n = 0 \/ cur = NULL THEN <<cur>>
  ELSE <<cur>> \o Walk(h, increment(h, cur), n - 1)

\* C10: from begin(), ++ visits the stored keys in strictly ascending order
\* and equals end() after exactly size() steps; -- on end() of a non-empty
\* map yields the entry with the maximum key.
C10_Iteration ==
  Running => \A m \in alive :
    LET w == Walk(heap, begin(m).cur, size(m))
        ks == [i \in 1..size(m) |-> heap[w[i]].key]
    IN /\ Len(w) = size(m) + 1
       /\ w[Len(w)] = end(m).cur
       /\ \A i \in 1..size(m) : w[i] # NULL /\ heap[w[i]].live
       /\ Ascending(ks)
       /\ {ks[i] : i \in 1..size(m)} = StoredKeys(m)
       /\ root[m] # NULL =>
            \A k \in StoredKeys(m) : ~Comp(heap[maximum(heap, root[m])].key, k)

\* C10 witness: ++ has brought the iterator to end() in a map of three
\* entries or more.
C10_Witness ==
  /\ Running /\ op = "operator++" /\ exc = "none"
  /\ it = end(1) /\ size(1) >= 3

\* C11: -- on an iterator equal to begin() (end() of an empty map included)
\* and ++ on end() throw invalid_iterator, and the container's entries,
\* structure and size are unchanged.
C11_StepPastEndsThrows ==
  [][op' \in {"operator++", "operator--"} =>
      /\ (it.cur = NULL /\ Inc) =>
           /\ exc' = "invalid_iterator"
           /\ UNCHANGED <<heap, root, map_size, stored>>
      /\ (it.cont \in alive /\ it = begin(it.cont) /\ Dec) =>
           /\ exc' = "invalid_iterator"
           /\ UNCHANGED <<heap, root, map_size, stored>>]_vars

\* C11 witness: -- has thrown in a map of three entries or more, so on the
\* iterator at its first entry.
C11_Witness ==
  /\ Running /\ op = "operator--" /\ exc = "invalid_iterator"
  /\ it.cont = 1 /\ size(1) >= 3

\* C12: at(k) and the const operator[](k) on an absent key throw
\* index_out_of_bound and insert nothing: the entries and the size of the map
\* are as before the call.
C12_AtAbsentThrows ==
  [][op' \in {"at", "operator[] const"} =>
      \A m \in alive : \A k \in KeysV \ StoredKeys(m) :
       (At(m, k) \/ ConstSubscript(m, k)) =>
         /\ exc' = "index_out_of_bound"
         /\ UNCHANGED <<heap, root, map_size, stored>>]_vars

\* C12 witness: at or the const operator[] has thrown on a map that holds
\* two entries or more, one of them with a value that is not the default.
C12_Witness ==
  /\ Running /\ op \in {"at", "operator[] const"} /\ exc = "index_out_of_bound"
  /\ size(1) >= 2 /\ size(1) < Cardinality(KeysV)
  /\ \E k \in StoredKeys(1) : stored[1][k] # DefaultT

\* C13: operator[](k) on an absent key adds exactly the entry (k, T()), so
\* size() grows by one, and keeps the tree invariants; on a present key it
\* changes nothing, and a write through the returned reference replaces the
\* value of k without changing size() or any other entry.
C13_SubscriptInserts ==
  [][/\ op' = "operator[]" =>
        \A m \in alive : \A k \in DOMAIN stored'[m] :
          Subscript(m, k) =>
            IF k \in StoredKeys(m)
            THEN UNCHANGED <<heap, root, map_size>>
            ELSE /\ Entries(heap', root'[m]) = Entries(heap, root[m]) \cup {<<k, DefaultT>>}
                 /\ Cardinality(Nodes(heap', root'[m])) = Cardinality(Nodes(heap, root[m])) + 1
                 /\ map_size'[m] = map_size[m] + 1
                 /\ TreeInvariants(heap, root[m]) => TreeInvariants(heap', root'[m])
     /\ op' = "operator[]=" =>
        \A m \in alive : \A k \in StoredKeys(m) :
          SubscriptAssign(m, k, stored'[m][k]) =>
            /\ UNCHANGED <<root, map_size>>
            /\ Nodes(heap', root'[m]) = Nodes(heap, root[m])
            /\ Entries(heap', root'[m]) =
                 (Entries(heap, root[m]) \ {<<k, stored[m][k]>>}) \cup {<<k, stored'[m][k]>>}]_vars

\* C13 witness: operator[] has inserted the third key of a map that holds
\* values other than the default, and the fix-up has rotated.
C13_Witness ==
  /\ Running /\ op = "operator[]" /\ exc = "none"
  /\ work.rot >= 1 /\ size(1) >= 3
  /\ \E k \in StoredKeys(1) : stored[1][k] # DefaultT

\* C14: an erase that returns leaves every other entry in its node: each
\* node of the map other than the erased one is still live, still in the
\* tree and still holds its key and value, also when the erased node had two
\* children and its successor was spliced into its place.
C14_EraseKeepsOthers ==
  [][(op' = "erase" /\ exc' = "none" /\ fault' = "none") =>
      \A m \in alive : Erase(m) =>
        /\ \A n \in Nodes(heap, root[m]) \ {it.cur} :
             /\ heap'[n].live
             /\ heap'[n].key = heap[n].key /\ heap'[n].val = heap[n].val
             /\ n \in Nodes(heap', root'[m])
        /\ Entries(heap', root'[m]) = Entries(heap, root[m]) \ {<<heap[it.cur].key, heap[it.cur].val>>}]_vars

\* C14 witness: an erase has returned after splicing the successor into the
\* place of a node with two children, and the entries left hold different
\* values.
C14_Witness ==
  /\ Erased /\ work.splice /\ size(1) >= 2
  /\ \E j, k \in StoredKeys(1) : stored[1][j] # stored[1][k]

\* the tree of root n as a value: keys, values, colours and shape
RECURSIVE Shape(_, _)
Shape(h, n) ==
  IF n = NULL THEN <<>>
  ELSE <<h[n].key, h[n].val, h[n].color, Shape(h, h[n].left), Shape(h, h[n].right)>>

\* all there is of map m: its members and its nodes
Snapshot(m) == <<root[m], map_size[m], [n \in Nodes(heap, root[m]) |-> heap[n]]>>

\* the call named o on map m: an insert, a value write, an erase or a clear
Modifies(o, m) ==
  CASE o = "insert" -> \E k \in KeysD, v \in ValsD : Insert(m, k, v)
    [] o = "operator[]=" -> \E k \in KeysD, v \in ValsD : SubscriptAssign(m, k, v)
    [] o = "erase" -> Erase(m)
    [] o = "clear" -> Clear(m)
    [] OTHER -> FALSE

\* C15: a copy-constructed or copy-assigned map has the keys, values,
\* colours and shape of its source and shares no node with it, and an
\* insert, erase, clear or value write on one map leaves the other map's
\* nodes, structure and size unchanged (a step that changes a map is no
\* call on the other one).
C15_CopyIndependent ==
  [][/\ op' \in {"map(other)", "operator="} =>
        \A m \in Maps : \A other \in alive \ {m} :
          (CopyConstruct(m, other) \/ CopyAssign(m, other)) =>
            /\ Shape(heap', root'[m]) = Shape(heap, root[other])
            /\ map_size'[m] = map_size[other]
            /\ Nodes(heap', root'[m]) \cap Nodes(heap', root'[other]) = {}
            /\ Snapshot(other)' = Snapshot(other)
     /\ (op' \in {"insert", "operator[]=", "erase", "clear"} /\ fault' = "none") =>
        \A m \in alive : \A other \in alive \ {m} :
          Snapshot(other)' # Snapshot(other) => ~Modifies(op', m)]_vars

\* C15 witness: a value has been written in one of two maps that had the
\* same entries, two or more, and the other map still has the old value.
C15_Witness ==
  /\ Running /\ op = "operator[]=" /\ alive = Maps
  /\ size(1) >= 2 /\ StoredKeys(1) = StoredKeys(2)
  /\ Shape(heap, root[1]) # Shape(heap, root[2])
  /\ \E k \in StoredKeys(1) :
       /\ stored[1][k] # stored[2][k]
       /\ \A j \in StoredKeys(1) \ {k} : stored[1][j] = stored[2][j]

\* C16: after every insert, operator[] and erase that has returned, the root
\* of a non-empty map is black.
C16_RootBlack ==
  Running => \A m \in alive : root[m] # NULL => heap[root[m]].color = BLACK

\* C16 witness: an erase whose fix-up rotated has returned and left three
\* entries or more under a black root.
C16_Witness ==
  /\ Erased /\ work.rot >= 1 /\ size(1) >= 3
  /\ heap[root[1]].color = BLACK

\* the calls that insert
InsertOps == {"insert", "operator[]", "operator[]="}

\* C17: the fix-up of an insertion terminates having performed at most two
\* rotations, after any number of colour flips, and the loop does not run
\* again once a rotation case has run.
C17_AtMostTwoRotations ==
  (Running /\ op \in InsertOps) => (work.rot <= 2 /\ ~work.rerun)

\* C17 witness: an insertion whose fix-up flipped colours and then rotated
\* twice.
C17_Witness ==
  /\ Running /\ op \in InsertOps
  /\ work.flip >= 1 /\ work.rot = 2

\* C18: a ++ or -- that throws invalid_iterator leaves the iterator at the
\* position it had before the call (a failed -- at begin() does not turn the
\* iterator into end()).
C18_FailedStepKeepsPosition ==
  [][(op' \in {"operator++", "operator--"} /\ (Inc \/ Dec) /\ exc' = "invalid_iterator") =>
       it' = it]_vars

\* C19: in every reachable state the parent pointers agree with the child
\* pointers: the root's parent is null and every non-null child of a node n
\* has n as its parent, after rotations, transplants and the splice of a
\* successor.
C19_ParentLinks ==
  Running => \A m \in alive : ParentLinks(heap, root[m])

\* C19 witness: an erase that spliced a successor and rotated has returned
\* and left four entries.
C19_Witness ==
  /\ Erased /\ work.splice /\ work.rot >= 1 /\ size(1) >= 4

\* C20: insert and operator[] leave every entry in its node: each node that
\* was in a map before the call is still live, still in the tree and still
\* holds the same key and value after the insertion and its fix-up.
C20_InsertKeepsIterators ==
  [][op' \in {"insert", "operator[]"} =>
      \A m \in alive : \A n \in Nodes(heap, root[m]) :
        /\ heap'[n].live
        /\ heap'[n].key = heap[n].key /\ heap'[n].val = heap[n].val
        /\ n \in Nodes(heap', root'[m])]_vars

\* C20 witness: an insertion whose fix-up rotated has returned, and the map
\* holds entries with different values.
C20_Witness ==
  /\ Running /\ op \in {"insert", "operator[]"} /\ exc = "none"
  /\ work.rot >= 1 /\ map_size[1] >= 3
  /\ \E j, k \in StoredKeys(1) : stored[1][j] # stored[1][k]

====
